---- MODULE Spec2Model ----
\* A model of the DNS resolver draft (package main): the name codec, the header
\* codec, the resource-record decoders and the single query/response exchange of
\* main().  Byte slices are modelled with their backing array, offset and length,
\* because Go bounds a slice expression by the capacity and an index by the length.
EXTENDS Integers, Sequences, FiniteSets, TLC

VARIABLES
    npc, host, encoded, decoded,
    hpc, header, packed, unpacked, checkErr,
    dpc, dmsg, drecs, dcount, dres,
    pc, transport, exchanges, response, responseHeader, err, printed, draws

nameVars == <<npc, host, encoded, decoded>>
headerVars == <<hpc, header, packed, unpacked, checkErr>>
decodeVars == <<dpc, dmsg, drecs, dcount, dres>>
mainVars ==
    <<pc, transport, exchanges, response, responseHeader, err, printed, draws>>
vars == <<nameVars, headerVars, decodeVars, mainVars>>

----------------------------------------------------------------------------
\* Results of Go calls: a value, or a run-time panic.

Ok(v) == [ok |-> TRUE, val |-> v]
Panic == [ok |-> FALSE, val |-> <<>>]

\* Go slices: backing array a, offset o of element 0, length n.
mkSlice(bytes) == [a |-> bytes, o |-> 0, n |-> Len(bytes)]
capOf(s) == Len(s.a) - s.o
\* s[i] is legal when 0 <= i < len(s)
inRange(s, i) == i >= 0 /\ i < s.n
Idx(s, i) == s.a[s.o + i + 1]
\* s[lo:hi] is legal when 0 <= lo <= hi <= cap(s)
sliceOk(s, lo, hi) == lo >= 0 /\ lo <= hi /\ hi <= capOf(s)
reslice(s, lo, hi) == [a |-> s.a, o |-> s.o + lo, n |-> hi - lo]
\* the bytes a slice holds
bytesOf(s) == SubSeq(s.a, s.o + 1, s.o + s.n)

Dot == 46

----------------------------------------------------------------------------
\* strings.Split(host, ".") and strings.Join(parts, ".")

cutsOf(str) == {i \in 1..Len(str) : str[i] = Dot} \cup {Len(str) + 1}
RECURSIVE splitFrom(_, _, _)
splitFrom(str, cuts, start) ==
    LET cut == CHOOSE c \in cuts : \A d \in cuts : c <= d IN
    <<SubSeq(str, start, cut - 1)>>
        \o (IF cuts = {cut} THEN <<>> ELSE splitFrom(str, cuts \ {cut}, cut + 1))
Split(str) == splitFrom(str, cutsOf(str), 1)

RECURSIVE Join(_)
Join(parts) ==
    IF parts = <<>> THEN <<>>
    ELSE IF Len(parts) = 1 THEN parts[1]
    ELSE parts[1] \o <<Dot>> \o Join(Tail(parts))

----------------------------------------------------------------------------
\* encodeHost

RECURSIVE encodeSections(_)
encodeSections(sections) ==
    IF sections = <<>> THEN <<>>
    ELSE <<Len(Head(sections)) % 256>> \o Head(sections)
            \o encodeSections(Tail(sections))

encodeHost(str) == encodeSections(Split(str)) \o <<0>>

----------------------------------------------------------------------------
\* decodeHost

\* the scanning loop: shift is the length byte under the cursor, fqdnBytes the
\* cursor; the walk panics when the cursor leaves the slice
RECURSIVE scanLabels(_, _, _, _)
scanLabels(s, shift, fqdnBytes, valueShifts) ==
    IF shift = 0 THEN Ok([shifts |-> valueShifts, bytes |-> fqdnBytes])
    ELSE LET next == fqdnBytes + shift + 1 IN
         IF ~inRange(s, next) THEN Panic
         ELSE scanLabels(s, Idx(s, next), next, Append(valueShifts, shift))

RECURSIVE domainPartsMut(_, _, _)
domainPartsMut(s, valueShifts, sliceStart) ==
    IF valueShifts = <<>> THEN <<>>
    ELSE <<bytesOf(reslice(s, sliceStart, Head(valueShifts) + sliceStart))>>
            \o domainPartsMut(s, Tail(valueShifts), sliceStart + Head(valueShifts))

RECURSIVE domainParts(_, _, _)
domainParts(s, valueShifts, sliceStart) ==
    IF valueShifts = <<>> THEN <<>>
    ELSE <<bytesOf(reslice(s, sliceStart, Head(valueShifts) + sliceStart))>>
            \o domainParts(s, Tail(valueShifts), sliceStart + Head(valueShifts) + 1)

decodeHost(encodedHost) ==
    IF ~inRange(encodedHost, 0) THEN Panic
    ELSE LET scan == scanLabels(encodedHost, Idx(encodedHost, 0), 0, <<>>) IN
         IF ~scan.ok THEN Panic
         ELSE Ok(Join(domainParts(encodedHost, scan.val.shifts, 1)))

----------------------------------------------------------------------------
\* The name codec applied to a host: encodeHost, then decodeHost of its output.

MaxLabels == 4

rep(n, ch) == [i \in 1..n |-> ch]
Labels ==
    { <<>>, <<97>>, <<100, 110, 115>>, <<103, 111, 111, 103, 108, 101>>,
      <<99, 111, 109>>, rep(61, 120), rep(63, 121), rep(64, 122), rep(256, 119) }
Hosts == { Join(ls) : ls \in UNION { [1..k -> Labels] : k \in 1..MaxLabels } }

NameInit ==
    /\ npc = "start"
    /\ host \in Hosts
    /\ encoded = <<>>
    /\ decoded = Ok(<<>>)

EncodeHost ==
    /\ npc = "start"
    /\ encoded' = encodeHost(host)
    /\ npc' = "encoded"
    /\ UNCHANGED <<host, decoded>>

DecodeHost ==
    /\ npc = "encoded"
    /\ decoded' = decodeHost(mkSlice(encoded))
    /\ npc' = "decoded"
    /\ UNCHANGED <<host, encoded>>

----------------------------------------------------------------------------
\* The header codec

uint16ToByteSliceMut(number) == <<number % 256, number \div 256>>

uint16ToByteSlice(number) == <<number \div 256, number % 256>>

RECURSIVE packUint16Fields(_)
packUint16Fields(fields) ==
    IF fields = <<>> THEN <<>>
    ELSE uint16ToByteSlice(Head(fields)) \o packUint16Fields(Tail(fields))

packHeader(h) ==
    packUint16Fields(<<h.id, h.flags, h.numQuestions, h.numAnswers,
                       h.numAuthorityRR, h.numAdditionalRR>>)

\* binary.BigEndian.Uint16 of the two bytes s[lo:lo+2]
beUint16(s, lo) == Idx(s, lo) * 256 + Idx(s, lo + 1)
\* binary.BigEndian.Uint32 of the four bytes s[lo:lo+4]
beUint32(s, lo) == beUint16(s, lo) * 65536 + beUint16(s, lo + 2)

unpackResponseHeaderMut(message) ==
    IF ~sliceOk(message, 0, 12) THEN Panic
    ELSE LET headerBytes == reslice(message, 0, 12) IN
         Ok([id |-> beUint16(headerBytes, 0),
             flags |-> beUint16(headerBytes, 2),
             numQuestions |-> beUint16(headerBytes, 4),
             numAnswers |-> beUint16(headerBytes, 8),
             numAuthorityRR |-> beUint16(headerBytes, 6),
             numAdditionalRR |-> beUint16(headerBytes, 10)])

unpackResponseHeader(message) ==
    IF ~sliceOk(message, 0, 12) THEN Panic
    ELSE LET headerBytes == reslice(message, 0, 12) IN
         Ok([id |-> beUint16(headerBytes, 0),
             flags |-> beUint16(headerBytes, 2),
             numQuestions |-> beUint16(headerBytes, 4),
             numAnswers |-> beUint16(headerBytes, 6),
             numAuthorityRR |-> beUint16(headerBytes, 8),
             numAdditionalRR |-> beUint16(headerBytes, 10)])

NoError == "nil"
NoResponse == "No response from DNS server"

checkResponse(h) == IF h.flags < 32767 THEN NoResponse ELSE NoError

U16Samples == {0, 1, 22, 255, 256, 32767, 32768, 65535}
CountSamples == {0, 1, 258, 65535}
U16 == 0..65535
NoHeader ==
    [id |-> 0, flags |-> 0, numQuestions |-> 0, numAnswers |-> 0,
     numAuthorityRR |-> 0, numAdditionalRR |-> 0]
Headers ==
    [id : U16Samples, flags : U16Samples, numQuestions : CountSamples,
     numAnswers : CountSamples, numAuthorityRR : CountSamples,
     numAdditionalRR : CountSamples]
    \cup { [NoHeader EXCEPT !.id = 22, !.numQuestions = 1, !.flags = f] : f \in U16 }

HeaderInit ==
    /\ hpc = "start"
    /\ header \in Headers
    /\ packed = <<>>
    /\ unpacked = Ok(NoHeader)
    /\ checkErr = NoError

PackHeader ==
    /\ hpc = "start"
    /\ packed' = packHeader(header)
    /\ hpc' = "packed"
    /\ UNCHANGED <<header, unpacked, checkErr>>

UnpackResponseHeader ==
    /\ hpc = "packed"
    /\ unpacked' = unpackResponseHeader(mkSlice(packed))
    /\ hpc' = "unpacked"
    /\ UNCHANGED <<header, packed, checkErr>>

CheckResponse ==
    /\ hpc = "unpacked"
    /\ unpacked.ok
    /\ checkErr' = checkResponse(unpacked.val)
    /\ hpc' = "checked"
    /\ UNCHANGED <<header, packed, unpacked>>

----------------------------------------------------------------------------
\* The resource-record decoders

domainLength(message) ==
    IF ~inRange(message, 0) THEN Panic
    ELSE LET scan == scanLabels(message, Idx(message, 0), 0, <<>>) IN
         IF ~scan.ok THEN Panic ELSE Ok(scan.val.bytes + 1)

extractAuthorityAnswer(message) ==
    LET dl == domainLength(message) IN
    IF ~dl.ok THEN Panic
    ELSE IF dl.val + 4 > message.n THEN Panic
    ELSE Ok(reslice(message, dl.val + 4, message.n))

\* the loop of unpackAnswers / unpackAuthorityAnswer that measures the name the
\* pointer refers to: the cursor is read at message[12+fqdnBytes]
RECURSIVE scanPointed(_, _, _)
scanPointed(message, shift, fqdnBytes) ==
    IF shift = 0 THEN Ok(fqdnBytes)
    ELSE LET next == fqdnBytes + shift + 1 IN
         IF ~inRange(message, 12 + next) THEN Panic
         ELSE scanPointed(message, Idx(message, 12 + next), next)

\* answer[0:2] read as a big-endian uint16 (the slice expression is bounded by
\* the capacity of answer)
nameField(answer) ==
    IF ~sliceOk(answer, 0, 2) THEN Panic
    ELSE Ok(beUint16(reslice(answer, 0, 2), 0))

\* the name of a record whose first two bytes are above 49152: the bytes
\* message[referenceDomain : referenceDomain+fqdnBytes+1] handed to decodeHost
pointedName(message, answer) ==
    LET referenceDomain == nameField(answer).val - 49152 IN
    IF referenceDomain > message.n THEN Panic
    ELSE LET fqdnInitial == reslice(message, referenceDomain, message.n) IN
         IF ~inRange(fqdnInitial, 0) THEN Panic
         ELSE LET scan == scanPointed(message, Idx(fqdnInitial, 0), 0) IN
              IF ~scan.ok THEN Panic
              ELSE IF ~sliceOk(message, referenceDomain,
                               referenceDomain + scan.val + 1) THEN Panic
              ELSE decodeHost(reslice(message, referenceDomain,
                                      referenceDomain + scan.val + 1))

\* answer[12 : 12+RDLength], the sum taken in uint16
rdataOf(answer) ==
    IF ~sliceOk(answer, 10, 12) THEN Panic
    ELSE LET hi == (12 + beUint16(reslice(answer, 10, 12), 0)) % 65536 IN
         IF ~sliceOk(answer, 12, hi) THEN Panic
         ELSE Ok(reslice(answer, 12, hi))

decodeIP(IP) ==
    IF ~inRange(IP, 3) THEN Panic
    ELSE Ok(<<Idx(IP, 0), Idx(IP, 1), Idx(IP, 2), Idx(IP, 3)>>)

\* the envelope fields answer[2:4], answer[4:6], answer[6:10], answer[10:12]
envelopeOk(answer) == sliceOk(answer, 10, 12)
recordOf(answer, name, rdata) ==
    [name |-> name,
     recordType |-> beUint16(reslice(answer, 2, 4), 0),
     recordClass |-> beUint16(reslice(answer, 4, 6), 0),
     TTL |-> beUint32(reslice(answer, 6, 10), 0),
     RDLength |-> beUint16(reslice(answer, 10, 12), 0),
     RDData |-> rdata]

EmptyRecordNS ==
    [name |-> <<>>, recordType |-> 0, recordClass |-> 0, TTL |-> 0,
     RDLength |-> 0, RDData |-> <<>>]

unpackAuthorityAnswer(message, answer) ==
    LET first == nameField(answer) IN
    IF ~first.ok THEN Panic
    ELSE IF first.val > 49152 THEN
        LET name == pointedName(message, answer)
            rdata == rdataOf(answer) IN
        IF ~name.ok \/ ~envelopeOk(answer) \/ ~rdata.ok THEN Panic
        ELSE LET target == decodeHost(rdata.val) IN
             IF ~target.ok THEN Panic
             ELSE Ok(recordOf(answer, name.val, target.val))
    ELSE Ok(EmptyRecordNS)

\* one iteration of the loop of unpackAnswers: the records appended for answer
unpackAnswer(message, answer) ==
    LET first == nameField(answer) IN
    IF ~first.ok THEN Panic
    ELSE IF first.val > 49152 THEN
        LET name == pointedName(message, answer)
            rdata == rdataOf(answer) IN
        IF ~name.ok \/ ~envelopeOk(answer) \/ ~rdata.ok THEN Panic
        ELSE LET ip == decodeIP(rdata.val) IN
             IF ~ip.ok THEN Panic
             ELSE Ok(<<recordOf(answer, name.val, ip.val)>>)
    ELSE Ok(<<>>)

RECURSIVE unpackAnswers(_, _)
unpackAnswers(message, answers) ==
    IF answers = <<>> THEN Ok(<<>>)
    ELSE LET one == unpackAnswer(message, Head(answers)) IN
         IF ~one.ok THEN Panic
         ELSE LET rest == unpackAnswers(message, Tail(answers)) IN
              IF ~rest.ok THEN Panic ELSE Ok(one.val \o rest.val)

\* the splitting loop of extractAnswers over the indices of initialAnswer
RECURSIVE splitAnswers(_, _, _, _, _, _)
splitAnswers(initialAnswer, separator, index, count, part, answers) ==
    IF index >= initialAnswer.n THEN answers
    ELSE IF count = separator THEN
        splitAnswers(initialAnswer, separator, index + 1, 0, part + separator + 1,
                     Append(answers, reslice(initialAnswer, part, index + 1)))
    ELSE splitAnswers(initialAnswer, separator, index + 1, count + 1, part, answers)

extractAnswers(message, responseAnswers) ==
    IF ~inRange(message, 0) THEN Panic
    ELSE LET scan == scanLabels(message, Idx(message, 0), 0, <<>>) IN
         IF ~scan.ok THEN Panic
         ELSE LET questionBytes == scan.val.bytes + 5 IN
              IF questionBytes > message.n THEN Panic
              ELSE IF responseAnswers = 0 THEN Panic
              ELSE LET initialAnswer == reslice(message, questionBytes, message.n)
                       separator == (initialAnswer.n \div responseAnswers) - 1 IN
                   Ok(splitAnswers(initialAnswer, separator, 0, 0, 0, <<>>))

----------------------------------------------------------------------------
\* the wire form the claim describes: per label one length byte equal to the
\* label's byte count, then the label's bytes; one zero byte at the end
RECURSIVE lengthPrefixed(_)
lengthPrefixed(ls) ==
    IF ls = <<>> THEN <<>>
    ELSE <<Len(Head(ls))>> \o Head(ls) \o lengthPrefixed(Tail(ls))

DnsGoogleCom == <<100, 110, 115, 46, 103, 111, 111, 103, 108, 101, 46, 99, 111, 109>>
DnsGoogleComWire ==
    <<3, 100, 110, 115, 6, 103, 111, 111, 103, 108, 101, 3, 99, 111, 109, 0>>

----------------------------------------------------------------------------
\* Response messages as a nameserver builds them (RFC 1035 4.1): header,
\* question, resource records.  These are the inputs of the decoders.

BufSize == 64
MaxAnswers == 2

Min(a, b) == IF a < b THEN a ELSE b
RECURSIVE Flatten(_)
Flatten(ss) == IF ss = <<>> THEN <<>> ELSE Head(ss) \o Flatten(Tail(ss))

wire16(n) == <<n \div 256, n % 256>>
wirePointer(p) == <<192 + (p \div 256), p % 256>>
wireName(str) == lengthPrefixed(Split(str)) \o <<0>>
wireQuestion(str) == wireName(str) \o <<0, 1, 0, 1>>
wireHeader(id, flags, an, ns, ar) ==
    wire16(id) \o wire16(flags) \o wire16(1) \o wire16(an) \o wire16(ns) \o wire16(ar)
wireRecord(name, type, rdata) ==
    name \o wire16(type) \o <<0, 1>> \o <<0, 0, 1, 44>>
         \o wire16(Len(rdata)) \o rdata

\* TYPE codes of the records the program unpacks: A, NS
TypeA == 1
TypeNS == TypeA + 1
NsName == <<110, 115>>
Address(i) == <<8, 8, 4 * i, 4 * i>>
rdataFor(type, i) == IF type = TypeA THEN Address(i) ELSE wireName(NsName)

\* where the name field of a record at offset off points
PointerKinds == {"question", "suffix", "self", "inline"}
recordName(qname, kind, off) ==
    CASE kind = "question" -> wirePointer(12)
      [] kind = "suffix" -> wirePointer(12 + 1 + Len(Split(qname)[1]))
      [] kind = "self" -> wirePointer(off)
      [] kind = "inline" -> wireName(qname)

recordLen(qname, kind, type) == Len(wireRecord(recordName(qname, kind, 0), type, rdataFor(type, 1)))
\* offset of the i-th record (1-based) of a message with one question
recordOffset(qname, kind, type, i) ==
    12 + Len(wireQuestion(qname)) + (i - 1) * recordLen(qname, kind, type)

wireMessage(id, flags, qname, kind, type, count) ==
    wireHeader(id, flags, IF type = TypeA THEN count ELSE 0,
               IF type = TypeNS THEN count ELSE 0, 0)
    \o wireQuestion(qname)
    \o Flatten([i \in 1..count |->
                  wireRecord(recordName(qname, kind, recordOffset(qname, kind, type, i)),
                             type, rdataFor(type, i))])

\* a response that also carries one authority record after its answers: NSCOUNT
\* (header bytes 8, 9) is 1 and an NS record for the question name follows
withAuthority(bytes) ==
    SubSeq(bytes, 1, 8) \o wire16(1) \o SubSeq(bytes, 11, Len(bytes))
        \o wireRecord(wirePointer(12), TypeNS, wireName(NsName))

\* the first k bytes of bytes, as read into a buffer of BufSize bytes (roomy) or
\* held in a slice of exactly k bytes
received(bytes, k, roomy) ==
    IF roomy /\ k <= BufSize
    THEN [a |-> [i \in 1..BufSize |-> IF i <= k THEN bytes[i] ELSE 0], o |-> 0, n |-> k]
    ELSE mkSlice(SubSeq(bytes, 1, k))

\* s[lo:hi] cut down to what the slice holds
clip(s, lo, hi) ==
    IF lo > s.n THEN mkSlice(<<>>) ELSE reslice(s, lo, Min(hi, s.n))

QNames ==
    { DnsGoogleCom, <<97, 46, 98, 99>>, <<97, 98, 46, 99>> }

DecodeInit ==
    /\ dpc = "start"
    /\ dres = Ok(<<>>)
    /\ \E qname \in QNames, kind \in PointerKinds, type \in {TypeA, TypeNS},
          count \in 1..MaxAnswers, roomy \in BOOLEAN, authority \in BOOLEAN :
        LET answersOnly == wireMessage(22, 33152, qname, kind, type, count)
            bytes == IF authority /\ type = TypeA THEN withAuthority(answersOnly)
                     ELSE answersOnly
            off(i) == recordOffset(qname, kind, type, i)
            rlen == recordLen(qname, kind, type) IN
        \E k \in {0, 5, 11, 12, 13, off(1), off(1) + 1, off(1) + 2, off(1) + 11,
                  off(1) + 12, Len(bytes) - 1, Len(bytes)} :
            /\ dmsg = received(bytes, k, roomy)
            /\ drecs = [i \in 1..count |-> clip(dmsg, off(i), off(i) + rlen)]
            /\ dcount = count

body(message) == clip(message, 12, message.n)

DecodeHeader ==
    /\ dpc = "start"
    /\ dres' = unpackResponseHeader(dmsg)
    /\ dpc' = "unpackResponseHeader"
    /\ UNCHANGED <<dmsg, drecs, dcount>>

DecodeDomainLength ==
    /\ dpc = "start"
    /\ dres' = domainLength(body(dmsg))
    /\ dpc' = "domainLength"
    /\ UNCHANGED <<dmsg, drecs, dcount>>

DecodeQuestionName ==
    /\ dpc = "start"
    /\ dres' = decodeHost(body(dmsg))
    /\ dpc' = "decodeHost"
    /\ UNCHANGED <<dmsg, drecs, dcount>>

DecodeExtractAnswers ==
    /\ dpc = "start"
    /\ dres' = extractAnswers(body(dmsg), dcount)
    /\ dpc' = "extractAnswers"
    /\ UNCHANGED <<dmsg, drecs, dcount>>

DecodeAnswers ==
    /\ dpc = "start"
    /\ dres' = unpackAnswers(dmsg, drecs)
    /\ dpc' = "unpackAnswers"
    /\ UNCHANGED <<dmsg, drecs, dcount>>

DecodeAuthority ==
    /\ dpc = "start"
    /\ dres' = unpackAuthorityAnswer(dmsg, drecs[1])
    /\ dpc' = "unpackAuthorityAnswer"
    /\ UNCHANGED <<dmsg, drecs, dcount>>

----------------------------------------------------------------------------
\* main: one query to the root server, then the response is unpacked and printed

RootServer == <<198, 41, 0, 4>>

\* the values rand.Intn(65535) can return; draws is the sequence of values
\* generateQueryID has returned in this run (main never calls it)
generateQueryID == 0..65534

packQuestion(question) ==
    question.qName \o uint16ToByteSlice(question.qType)
                   \o uint16ToByteSlice(question.qClass)

packMessage(hdr, dnsQuestion) == hdr \o dnsQuestion

sendingQuestion == [qName |-> encodeHost(DnsGoogleCom), qType |-> 1, qClass |-> 1]
sendingHeader ==
    [id |-> 22, flags |-> 0, numQuestions |-> 1, numAnswers |-> 0,
     numAuthorityRR |-> 0, numAdditionalRR |-> 0]
queryMessage == packMessage(packHeader(sendingHeader), packQuestion(sendingQuestion))

\* replies the transport can deliver
GlueAddress == <<192, 5, 6, 30>>
Referral ==
    wireHeader(22, 32768, 0, 1, 1) \o wireQuestion(DnsGoogleCom)
    \o wireRecord(wirePointer(23), TypeNS, wireName(NsName))
    \o wireRecord(wirePointer(44), TypeA, GlueAddress)
Answer == wireMessage(22, 33792, DnsGoogleCom, "question", TypeA, 1)

Replies ==
    { Referral, Answer }
    \cup { wireMessage(id, flags, DnsGoogleCom, kind, type, count) :
             id \in {22, 23}, flags \in {256, 32767, 33152},
             kind \in {"question", "suffix"}, type \in {TypeA, TypeNS},
             count \in 0..MaxAnswers }
    \cup { SubSeq(Answer, 1, k) : k \in {0, 5, 12, 20, 40} }

MainInit ==
    /\ pc = "start"
    /\ transport \in [replies : UNION { [1..k -> Replies] : k \in 1..2 }, next : {1}]
    /\ exchanges = <<>>
    /\ response = mkSlice(<<>>)
    /\ responseHeader = NoHeader
    /\ err = NoError
    /\ printed = <<>>
    /\ draws = <<>>

\* sendMessage: dial the root server, write the query, read one datagram into a
\* buffer of BufSize bytes
SendMessage ==
    /\ pc = "start"
    /\ transport.next <= Len(transport.replies)
    /\ LET reply == transport.replies[transport.next] IN
       response' = received(reply, Min(Len(reply), BufSize), TRUE)
    /\ exchanges' = Append(exchanges, [to |-> RootServer, message |-> queryMessage])
    /\ transport' = [transport EXCEPT !.next = @ + 1]
    /\ pc' = "received"
    /\ UNCHANGED <<responseHeader, err, printed, draws>>

\* DialUDP, Write or Read returns an error: log.Fatal
SendMessageFails ==
    /\ pc = "start"
    /\ pc' = "fatal"
    /\ UNCHANGED <<transport, exchanges, response, responseHeader, err, printed, draws>>

\* responseHeader := unpackResponseHeader(response); responseNoHeader := response[12:]
UnpackHeader ==
    /\ pc = "received"
    /\ LET h == unpackResponseHeader(response) IN
       IF ~h.ok \/ 12 > response.n
       THEN pc' = "panic" /\ UNCHANGED responseHeader
       ELSE pc' = "unpacked" /\ responseHeader' = h.val
    /\ UNCHANGED <<transport, exchanges, response, err, printed, draws>>

MainCheckResponse ==
    /\ pc = "unpacked"
    /\ err' = checkResponse(responseHeader)
    /\ pc' = IF err' # NoError THEN "fatal" ELSE "checked"
    /\ UNCHANGED <<transport, exchanges, response, responseHeader, printed, draws>>

responseNoHeader == reslice(response, 12, response.n)

HandleAuthority ==
    /\ pc = "checked"
    /\ responseHeader.numAnswers = 0 /\ responseHeader.numAuthorityRR > 0
    /\ LET authorityAnswer == extractAuthorityAnswer(responseNoHeader) IN
       IF ~authorityAnswer.ok THEN pc' = "panic" /\ UNCHANGED printed
       ELSE LET unpackedAuthorityAnswer == unpackAuthorityAnswer(response, authorityAnswer.val) IN
            IF ~unpackedAuthorityAnswer.ok THEN pc' = "panic" /\ UNCHANGED printed
            ELSE /\ printed' = <<[authority |-> unpackedAuthorityAnswer.val.RDData]>>
                 /\ pc' = "done"
    /\ UNCHANGED <<transport, exchanges, response, responseHeader, err, draws>>

HandleAnswers ==
    /\ pc = "checked"
    /\ ~(responseHeader.numAnswers = 0 /\ responseHeader.numAuthorityRR > 0)
    /\ LET answers == extractAnswers(responseNoHeader, responseHeader.numAnswers) IN
       IF ~answers.ok THEN pc' = "panic" /\ UNCHANGED printed
       ELSE LET unpackedResponses == unpackAnswers(response, answers.val) IN
            IF ~unpackedResponses.ok THEN pc' = "panic" /\ UNCHANGED printed
            ELSE /\ printed' = [i \in 1..Len(unpackedResponses.val) |->
                                  [domain |-> unpackedResponses.val[i].name,
                                   ipv4 |-> unpackedResponses.val[i].RDData]]
                 /\ pc' = "done"
    /\ UNCHANGED <<transport, exchanges, response, responseHeader, err, draws>>

----------------------------------------------------------------------------
\* Specifications

NameIdle == npc = "idle" /\ host = <<>> /\ encoded = <<>> /\ decoded = Ok(<<>>)
HeaderIdle ==
    /\ hpc = "idle" /\ header = NoHeader /\ packed = <<>>
    /\ unpacked = Ok(NoHeader) /\ checkErr = NoError

DecodeIdle ==
    /\ dpc = "idle" /\ dmsg = mkSlice(<<>>) /\ drecs = <<>> /\ dcount = 0
    /\ dres = Ok(<<>>)

MainIdle ==
    /\ pc = "idle" /\ transport = [replies |-> <<>>, next |-> 1] /\ exchanges = <<>>
    /\ response = mkSlice(<<>>) /\ responseHeader = NoHeader /\ err = NoError
    /\ printed = <<>> /\ draws = <<>>

NameNext ==
    \/ EncodeHost /\ UNCHANGED <<headerVars, decodeVars, mainVars>>
    \/ DecodeHost /\ UNCHANGED <<headerVars, decodeVars, mainVars>>
InitName == NameInit /\ HeaderIdle /\ DecodeIdle /\ MainIdle
SpecName == InitName /\ [][NameNext]_vars

HeaderNext ==
    \/ PackHeader /\ UNCHANGED <<nameVars, decodeVars, mainVars>>
    \/ UnpackResponseHeader /\ UNCHANGED <<nameVars, decodeVars, mainVars>>
    \/ CheckResponse /\ UNCHANGED <<nameVars, decodeVars, mainVars>>
InitHeader == HeaderInit /\ NameIdle /\ DecodeIdle /\ MainIdle
SpecHeader == InitHeader /\ [][HeaderNext]_vars

DecodeNext ==
    \/ DecodeHeader /\ UNCHANGED <<nameVars, headerVars, mainVars>>
    \/ DecodeDomainLength /\ UNCHANGED <<nameVars, headerVars, mainVars>>
    \/ DecodeQuestionName /\ UNCHANGED <<nameVars, headerVars, mainVars>>
    \/ DecodeExtractAnswers /\ UNCHANGED <<nameVars, headerVars, mainVars>>
    \/ DecodeAnswers /\ UNCHANGED <<nameVars, headerVars, mainVars>>
    \/ DecodeAuthority /\ UNCHANGED <<nameVars, headerVars, mainVars>>
InitDecode == DecodeInit /\ NameIdle /\ HeaderIdle /\ MainIdle
SpecDecode == InitDecode /\ [][DecodeNext]_vars

MainNext ==
    \/ SendMessage /\ UNCHANGED <<nameVars, headerVars, decodeVars>>
    \/ SendMessageFails /\ UNCHANGED <<nameVars, headerVars, decodeVars>>
    \/ UnpackHeader /\ UNCHANGED <<nameVars, headerVars, decodeVars>>
    \/ MainCheckResponse /\ UNCHANGED <<nameVars, headerVars, decodeVars>>
    \/ HandleAuthority /\ UNCHANGED <<nameVars, headerVars, decodeVars>>
    \/ HandleAnswers /\ UNCHANGED <<nameVars, headerVars, decodeVars>>
InitMain == MainInit /\ NameIdle /\ HeaderIdle /\ DecodeIdle
SpecMain == InitMain /\ [][MainNext]_vars

----------------------------------------------------------------------------
\* Claims on the name codec

labelsOf(str) == LET ls == Split(str) IN { ls[j] : j \in 1..Len(ls) }
\* every label is 1 to 63 bytes long and the encoded form (one length byte per
\* label, the label bytes, the terminator) is at most 255 bytes
ValidName(str) ==
    /\ \A l \in labelsOf(str) : Len(l) >= 1 /\ Len(l) <= 63
    /\ Len(str) + 2 <= 255

\* C1: for every name whose labels are each 1 to 63 bytes long and whose encoded
\* form is at most 255 bytes, decodeHost(encodeHost(name)) equals name.
C1_NameRoundTrip ==
    (npc = "decoded" /\ ValidName(host)) => (decoded.ok /\ decoded.val = host)

C1_Witness ==
    /\ npc = "decoded"
    /\ ValidName(host)
    /\ Len(host) + 2 = 255
    /\ \E l \in labelsOf(host) : Len(l) = 63
    /\ decoded.ok /\ decoded.val = host

\* C3: encodeHost emits, for each dot-separated label in order, one length byte
\* equal to the label's byte count followed by the label's bytes, and ends with a
\* zero byte; "dns.google.com" encodes to the documented bytes and decodes back.
C3_EncodeHostFormat ==
    /\ npc # "start" =>
        /\ encoded = lengthPrefixed(Split(host)) \o <<0>>
        /\ \A i \in 1..Len(encoded) : encoded[i] \in 0..255
    /\ (npc # "start" /\ host = DnsGoogleCom) => encoded = DnsGoogleComWire
    /\ (npc = "decoded" /\ encoded = DnsGoogleComWire) =>
        decoded = Ok(DnsGoogleCom)

----------------------------------------------------------------------------
\* Claims on the header codec

fieldsOf(h) ==
    <<h.id, h.flags, h.numQuestions, h.numAnswers, h.numAuthorityRR,
      h.numAdditionalRR>>

\* C2: for every header whose six fields each take any 16-bit value,
\* unpackResponseHeader(h.packHeader()) equals h field by field.
C2_HeaderRoundTrip ==
    hpc \in {"unpacked", "checked"} =>
        /\ unpacked.ok
        /\ \A k \in 1..6 : fieldsOf(unpacked.val)[k] = fieldsOf(header)[k]

C2_Witness ==
    /\ hpc = "unpacked"
    /\ header.id = 65535 /\ header.flags = 32768 /\ header.numAnswers = 258
    /\ header.numAuthorityRR = 1
    /\ unpacked.ok /\ unpacked.val = header

ExampleHeader ==
    [id |-> 22, flags |-> 256, numQuestions |-> 1, numAnswers |-> 0,
     numAuthorityRR |-> 0, numAdditionalRR |-> 0]
ExampleHeaderWire == <<0, 22, 1, 0, 0, 1, 0, 0, 0, 0, 0, 0>>

\* C4: packHeader always produces exactly 12 bytes, the six fields in the fixed
\* order id, flags, numQuestions, numAnswers, numAuthorityRR, numAdditionalRR,
\* each big-endian; id=22, flags=0x0100, numQuestions=1 gives 0016 0100 0001 0000
\* 0000 0000.
C4_PackHeaderLayout ==
    hpc # "start" =>
        /\ Len(packed) = 12
        /\ \A k \in 1..6 :
            /\ packed[2 * k - 1] \in 0..255
            /\ packed[2 * k] \in 0..255
            /\ packed[2 * k - 1] * 256 + packed[2 * k] = fieldsOf(header)[k]
        /\ header = ExampleHeader => packed = ExampleHeaderWire

C4_Witness ==
    /\ hpc = "packed"
    /\ header = ExampleHeader
    /\ packed = ExampleHeaderWire

\* bit 15 of a 16-bit value
QR(flags) == (flags \div 32768) % 2 = 1

\* C10: for every 16-bit flags value, checkResponse returns no error exactly when
\* bit 15 of flags is set, and an error exactly when it is clear.
C10_ValidityIsQRBit ==
    hpc = "checked" => (checkErr = NoError <=> QR(header.flags))

----------------------------------------------------------------------------
\* Claims on the record decoders

\* the labels spelled out at offset p of bytes: length bytes of 1..63, each label
\* inside bytes, a zero byte at the end
RECURSIVE spelledOut(_, _)
spelledOut(bytes, p) ==
    IF p + 1 > Len(bytes) THEN [ok |-> FALSE, labels |-> <<>>]
    ELSE IF bytes[p + 1] = 0 THEN [ok |-> TRUE, labels |-> <<>>]
    ELSE IF bytes[p + 1] > 63 \/ p + 1 + bytes[p + 1] > Len(bytes)
         THEN [ok |-> FALSE, labels |-> <<>>]
    ELSE LET rest == spelledOut(bytes, p + 1 + bytes[p + 1]) IN
         [ok |-> rest.ok,
          labels |-> <<SubSeq(bytes, p + 2, p + 1 + bytes[p + 1])>> \o rest.labels]

\* a record that lies whole inside the message: envelope and RDLENGTH bytes
wholeRecord(r, type) ==
    /\ r.n >= 12
    /\ beUint16(r, 2) = type
    /\ r.n = 12 + beUint16(r, 10)
isPointer(r) == r.n >= 2 /\ Idx(r, 0) >= 192
pointerOf(r) == beUint16(r, 0) - 49152
\* the name field of r points to an earlier offset where a well-formed name starts
pointsToName(message, r) ==
    /\ isPointer(r)
    /\ pointerOf(r) < r.o
    /\ spelledOut(bytesOf(message), pointerOf(r)).ok
nameAt(message, r) == Join(spelledOut(bytesOf(message), pointerOf(r)).labels)

\* C5: for every record whose NAME is a compression pointer to an earlier offset p
\* (any p) where a well-formed name starts, the name unpackAnswers and
\* unpackAuthorityAnswer decode is the name spelled out at p.
C5_PointerDecoding ==
    /\ (/\ dpc = "unpackAnswers"
        /\ \A i \in 1..Len(drecs) :
            wholeRecord(drecs[i], TypeA) /\ pointsToName(dmsg, drecs[i]))
       => /\ dres.ok
          /\ Len(dres.val) = Len(drecs)
          /\ \A i \in 1..Len(drecs) : dres.val[i].name = nameAt(dmsg, drecs[i])
    /\ (/\ dpc = "unpackAuthorityAnswer"
        /\ wholeRecord(drecs[1], TypeNS) /\ pointsToName(dmsg, drecs[1]))
       => /\ dres.ok
          /\ dres.val.name = nameAt(dmsg, drecs[1])

\* how a call ended: the code has values and run-time panics, no typed errors
outcome(res) == IF res.ok THEN "value" ELSE "panic"

\* C6: for every input buffer, also a truncated one, decoding never panics: it
\* ends with a value or with a MalformedMessage error.
C6_DecodingNeverPanics ==
    dpc # "start" => outcome(dres) \in {"value", "MalformedMessage"}

selfReferencing(r) == isPointer(r) /\ pointerOf(r) = r.o

\* C7: decoding a record whose name is a compression pointer to its own offset
\* terminates with a CompressionLoop error.
C7_SelfPointerIsCompressionLoop ==
    (/\ dpc \in {"unpackAnswers", "unpackAuthorityAnswer"}
     /\ selfReferencing(drecs[1]))
    => outcome(dres) = "CompressionLoop"

----------------------------------------------------------------------------
\* Claims on main

\* C8: when the transport returns a root referral (authority NS plus glue A) and
\* then an authoritative A answer, the resolution returns the address of the
\* second response after exactly two exchanges, the second sent to the referred
\* nameserver's address.
C8_ReferralFollowed ==
    (pc = "done" /\ transport.replies = <<Referral, Answer>>)
    => /\ Len(exchanges) = 2
       /\ exchanges[2].to = GlueAddress
       /\ printed = <<[domain |-> DnsGoogleCom, ipv4 |-> Address(1)]>>

\* C9: a response whose header id differs from the id of the query sent is never
\* used: its records are not unpacked or reported.
C9_IdMismatchDiscarded ==
    (pc \in {"unpacked", "checked", "done"} /\ responseHeader.id # sendingHeader.id)
    => pc # "done" /\ printed = <<>>

\* the id field of a packed query
queryId(message) == message[1] * 256 + message[2]

\* C11: the id of every query sent is drawn fresh from the random source
\* (generateQueryID) for that query; it is not a fixed constant.
C11_QueryIdIsDrawn ==
    \A i \in 1..Len(exchanges) :
        /\ i <= Len(draws)
        /\ draws[i] \in generateQueryID
        /\ queryId(exchanges[i].message) = draws[i]

\* the length bytes of an encoded name, walked from its first byte
RECURSIVE lengthBytes(_, _)
lengthBytes(bytes, at) ==
    IF at > Len(bytes) \/ bytes[at] = 0 THEN <<>>
    ELSE <<bytes[at]>> \o lengthBytes(bytes, at + bytes[at] + 1)

\* C12: encodeHost fails with InvalidLabel, producing no bytes, when a label is
\* empty, when a label is longer than 63 bytes, or when the encoded name would be
\* longer than 255 bytes; hence every length byte it emits equals the true label
\* length and is in 1..63.
C12_InvalidNamesRejected ==
    npc # "start" =>
        /\ ~ValidName(host) => encoded = <<>>
        /\ encoded # <<>> =>
            /\ lengthBytes(encoded, 1) =
                 [j \in 1..Len(Split(host)) |-> Len(Split(host)[j])]
            /\ \A j \in 1..Len(lengthBytes(encoded, 1)) :
                 lengthBytes(encoded, 1)[j] \in 1..63

\* the bytes the NAME field of record r takes: 2 for a pointer, else the
\* spelled-out labels and their terminator
nameBytes(r) ==
    IF isPointer(r) THEN 2
    ELSE LET name == spelledOut(bytesOf(r), 0) IN
         Len(Flatten(name.labels)) + Len(name.labels) + 1
\* a well-formed answer record that lies whole in r: NAME (a pointer to an earlier
\* offset, or spelled out), TYPE A, CLASS, TTL, RDLENGTH and RDLENGTH bytes
wholeAnswer(r) ==
    /\ r.n >= 2
    /\ IF isPointer(r) THEN pointerOf(r) < r.o ELSE spelledOut(bytesOf(r), 0).ok
    /\ r.n >= nameBytes(r) + 10
    /\ beUint16(r, nameBytes(r)) = TypeA
    /\ r.n = nameBytes(r) + 10 + beUint16(r, nameBytes(r) + 8)

\* C13: for every response body holding one question followed by n >= 1
\* well-formed answer records, extractAnswers(body, n) returns exactly n slices,
\* the i-th being the bytes of the i-th record, also when authority or additional
\* bytes follow the answers.
C13_AnswersSplitByRecord ==
    (/\ dpc = "extractAnswers"
     /\ \A i \in 1..Len(drecs) : wholeAnswer(drecs[i]))
    => /\ dres.ok
       /\ Len(dres.val) = dcount
       /\ \A i \in 1..dcount : dres.val[i] = drecs[i]

\* the condition of the branch of main that handles the authority section
authorityRoute ==
    responseHeader.numAnswers = 0 /\ responseHeader.numAuthorityRR > 0

\* C14: once the header has passed checkResponse, extractAnswers is only ever
\* called with an answer count of at least 1: a response with numAnswers = 0 goes
\* to the authority branch or ends in a reported error, never in the division
\* len(initialAnswer)/responseAnswers by zero.
C14_AnswerCountNeverZero ==
    (pc = "checked" /\ ~authorityRoute) => responseHeader.numAnswers >= 1

====
